---- MODULE Spec2Model ----
(***************************************************************************)
(* Audio-synthesis job tracking and stuck-job recovery of FamFlix.         *)
(*                                                                         *)
(* The store is the story_audio table of famflix.db.  Two administrative   *)
(* scripts write it: recover_audio.py (force-complete of one section) and  *)
(* reset_stuck_audio.py (force-fail of the PROCESSING entries of a story). *)
(* The web application that creates jobs and the synthesis worker that     *)
(* moves them PENDING -> PROCESSING -> COMPLETE | ERROR are not among the   *)
(* Python sources; their operations create and update follow section 4.1   *)
(* and 4.2 of the specification.                                           *)
(***************************************************************************)
EXTENDS Integers, Sequences, FiniteSets, TLC

\* ------------------------------------------------------------------ bounds
MaxJobs == 2      \* rows the story_audio table may hold
MaxTime == 1      \* last value of the clock
Timeout == 0      \* the timeout of the stuck-job detector (section 4.3)
MaxListed == 3    \* rows of the tables the check_story_* scripts are run on

\* ------------------------------------------------------------- the schema
Sections == {"s1", "s2", "c1", "c2", "c3"}
Voices   == {"v1", "v2"}
Stories  == {"A", "B", "C"}

\* the (section, voice) pairs narration is requested for
Keys == {<<"s1", "v1">>, <<"s1", "v2">>, <<"s2", "v1">>}

\* story_sections: the story each section belongs to
StoryOf == [s \in Sections |-> IF s = "s1" THEN "A" ELSE IF s = "s2" THEN "B" ELSE "C"]

\* story_sections.section_index: the place of a section in its story
SectionIndex == [s \in Sections |-> IF s = "c2" THEN 1 ELSE IF s = "c3" THEN 2 ELSE 0]

Status      == {"PENDING", "PROCESSING", "COMPLETE", "ERROR"}
Terminal    == {"COMPLETE", "ERROR"}
NonTerminal == {"PENDING", "PROCESSING"}

\* PENDING -> PROCESSING -> COMPLETE | ERROR
LegalEdges == {<<"PENDING", "PROCESSING">>,
               <<"PROCESSING", "COMPLETE">>,
               <<"PROCESSING", "ERROR">>}

\* the (expectedStatus, newStatus) pairs callers of update send: the worker's
\* own transitions, and the defective ones of section 4.2
Requests == LegalEdges \cup {<<"PENDING", "COMPLETE">>, <<"PROCESSING", "PENDING">>,
                             <<"COMPLETE", "PROCESSING">>, <<"ERROR", "PROCESSING">>}

NULL   == "NULL"          \* SQL NULL of a text column
NoTime == 0 - 1           \* SQL NULL of a timestamp column

\* recover_audio.py: section_id = 'w5zidtnr28cmi90vppz', the one section it recovers
RecoverSection == "s1"
\* reset_stuck_audio.py: story_id = '8p46vkwmr2xmi90vpq6', the one story it resets
ResetStory == "A"

\* check_story_audio.py, check_story_narrations*.py: story_id = '63jme25ab1xmi90vppr'
CheckStory == "C"

\* recover_audio.py: audio_url = f'/api/audio/{audio_filename}'
RecoverUrl == "/api/audio/cb-1763797302007-vspdDk.wav"
\* recover_audio.py: SET status = 'COMPLETE'
RecoverStatus == "COMPLETE"

\* (variant: the reset puts the entries back in the queue instead of failing them)
ResetStatus_Requeue == "PENDING"
\* reset_stuck_audio.py: SET status = 'ERROR', error = '...'
ResetStatus == "ERROR"
ResetError  == "Processing timed out (reset by admin)"

\* what the synthesis worker writes on its own terminal transitions
WorkerUrl   == "/api/audio/worker.wav"
WorkerError == "synthesis failed"

VARIABLES
  now,          \* the clock, int(time.time() * 1000)
  story_audio,  \* the table: a sequence of rows, never deleted
  recover,      \* recover_audio.py: where the script is, the voice_id it fetched
                \* (and, for the record, the row that held it)
  reset,        \* reset_stuck_audio.py: where the script is, the section ids it
                \* fetched (and, for the record, the rows that held them)
  result,       \* what the operation of the last step reported
  story_narrations,  \* the table of narration chunks the check scripts read
  printed       \* the lines a check script printed, in the order printed

vars == <<now, story_audio, recover, reset, result, story_narrations, printed>>

Rows == DOMAIN story_audio

Key(r) == <<r.section_id, r.voice_id>>

\* ------------------------------------------------------------------ Init
Init ==
  /\ now = 0
  /\ story_audio = <<>>
  /\ recover = [pc |-> "idle", voice_id |-> NULL, row |-> 0]
  /\ reset = [pc |-> "idle", rows |-> {}, found |-> {}]
  /\ result = "ok"
  /\ story_narrations = <<>>
  /\ printed = <<>>

\* time passes
Tick ==
  /\ now < MaxTime
  /\ now' = now + 1
  /\ result' = "ok"
  /\ UNCHANGED <<story_audio, recover, reset, story_narrations, printed>>

\* -------------------------------------------------- Job Store (sec. 4.1)
NewJob(sec, v, t) ==
  [section_id |-> sec, voice_id |-> v, status |-> "PENDING",
   audio_url |-> NULL, error |-> NULL,
   created_at |-> t, updated_at |-> t, completed_at |-> NoTime]

\* the rows of a key that are PENDING or PROCESSING
ActiveRows(k) ==
  {i \in Rows : Key(story_audio[i]) = k /\ story_audio[i].status \in NonTerminal}

\* (variant: create looks for a PENDING job only, and misses one in PROCESSING)
create_PendingOnly(sec, v) ==
  /\ Len(story_audio) < MaxJobs
  /\ IF \E i \in Rows : Key(story_audio[i]) = <<sec, v>> /\ story_audio[i].status = "PENDING"
       THEN /\ result' = "DuplicateActiveJob"
            /\ UNCHANGED story_audio
       ELSE /\ story_audio' = Append(story_audio, NewJob(sec, v, now))
            /\ result' = "ok"
  /\ UNCHANGED <<now, recover, reset, story_narrations, printed>>

\* create(key): DuplicateActiveJob when the key has a non-terminal job
create(sec, v) ==
  /\ ActiveRows(<<sec, v>>) = {} => Len(story_audio) < MaxJobs
  /\ IF ActiveRows(<<sec, v>>) # {}
       THEN /\ result' = "DuplicateActiveJob"
            /\ UNCHANGED story_audio
       ELSE /\ story_audio' = Append(story_audio, NewJob(sec, v, now))
            /\ result' = "ok"
  /\ UNCHANGED <<now, recover, reset, story_narrations, printed>>

HasRow(k) == \E i \in Rows : Key(story_audio[i]) = k

\* getByKey(key): the latest row of the key
LatestRow(k) ==
  CHOOSE i \in Rows :
    /\ Key(story_audio[i]) = k
    /\ \A j \in Rows : Key(story_audio[j]) = k => j <= i

\* the row a committed update leaves: status, fields and timestamps together
Committed(r, newStatus, t) ==
  [r EXCEPT !.status = newStatus,
            !.audio_url = IF newStatus = "COMPLETE" THEN WorkerUrl ELSE r.audio_url,
            !.error = IF newStatus = "ERROR" THEN WorkerError ELSE r.error,
            !.updated_at = t,
            !.completed_at = IF newStatus \in Terminal THEN t ELSE r.completed_at]

\* (variant: the transition function checks the edge, not the expected status)
Verdict_Unguarded(r, expectedStatus, newStatus) ==
  IF <<r.status, newStatus>> \notin LegalEdges THEN "IllegalTransition" ELSE "ok"

\* (variant: the transition function checks the expected status, not the edge)
Verdict_AnyEdge(r, expectedStatus, newStatus) ==
  IF r.status # expectedStatus THEN "StaleStatus" ELSE "ok"

\* the verdict of the guarded transition function on a row
Verdict(r, expectedStatus, newStatus) ==
  IF r.status # expectedStatus THEN "StaleStatus"
  ELSE IF <<r.status, newStatus>> \notin LegalEdges THEN "IllegalTransition"
  ELSE "ok"

\* update(key, expectedStatus, newStatus, fields): one conditional write
update(sec, v, expectedStatus, newStatus) ==
  /\ HasRow(<<sec, v>>)
  /\ LET i == LatestRow(<<sec, v>>)
         r == story_audio[i]
         verdict == Verdict(r, expectedStatus, newStatus)
     IN /\ result' = verdict
        /\ story_audio' = IF verdict = "ok"
                            THEN [story_audio EXCEPT ![i] = Committed(r, newStatus, now)]
                            ELSE story_audio
  /\ UNCHANGED <<now, recover, reset, story_narrations, printed>>

\* ---------------------------------------- recover_audio.py (force-complete)
\* SELECT voice_id FROM story_audio WHERE section_id = ? AND status = 'PROCESSING'
RecoverFound ==
  {i \in Rows : /\ story_audio[i].section_id = RecoverSection
                /\ story_audio[i].status = "PROCESSING"}

\* the SELECT and fetchone(): no row ends the script, a row is kept for the UPDATE
RecoverSelect ==
  /\ recover.pc = "idle"
  /\ IF RecoverFound = {}
       THEN /\ result' = "noop"
            /\ UNCHANGED recover
       ELSE /\ \E i \in RecoverFound :
                 recover' = [pc |-> "found", voice_id |-> story_audio[i].voice_id,
                             row |-> i]
            /\ result' = "ok"
  /\ UNCHANGED <<now, story_audio, reset, story_narrations, printed>>

\* UPDATE story_audio SET ... WHERE section_id = ? AND voice_id = ?
RecoverMatches(r) ==
  r.section_id = RecoverSection /\ r.voice_id = recover.voice_id

\* (variant: the UPDATE leaves completed_at out, as the reset script's does)
Recovered_NoCompletedAt(r, t) ==
  [r EXCEPT !.status = RecoverStatus, !.audio_url = RecoverUrl, !.updated_at = t]

\* SET status = 'COMPLETE', audio_url = ?, updated_at = ?, completed_at = ?
Recovered(r, t) ==
  [r EXCEPT !.status = RecoverStatus, !.audio_url = RecoverUrl,
            !.updated_at = t, !.completed_at = t]

\* the UPDATE and the commit
RecoverUpdate ==
  /\ recover.pc = "found"
  /\ story_audio' = [i \in Rows |-> IF RecoverMatches(story_audio[i])
                                      THEN Recovered(story_audio[i], now)
                                      ELSE story_audio[i]]
  /\ recover' = [pc |-> "idle", voice_id |-> NULL, row |-> 0]
  /\ result' = "ok"
  /\ UNCHANGED <<now, reset, story_narrations, printed>>

\* ------------------------------------- reset_stuck_audio.py (force-fail)
\* SELECT sa.section_id FROM story_audio sa JOIN story_sections ss
\*   ON sa.section_id = ss.id WHERE ss.story_id = ? AND sa.status = 'PROCESSING'
findStuck ==
  {i \in Rows : /\ StoryOf[story_audio[i].section_id] = ResetStory
                /\ story_audio[i].status = "PROCESSING"}

\* (variant: the scan marks what it finds, touching updated_at of the rows)
ResetSelect_Marks ==
  /\ reset.pc = "idle"
  /\ IF findStuck = {}
       THEN /\ result' = "noop"
            /\ UNCHANGED <<reset, story_audio>>
       ELSE /\ reset' = [pc |-> "found",
                         rows |-> {story_audio[i].section_id : i \in findStuck},
                         found |-> findStuck]
            /\ story_audio' = [i \in Rows |-> IF i \in findStuck
                                                THEN [story_audio[i] EXCEPT !.updated_at = now]
                                                ELSE story_audio[i]]
            /\ result' = "ok"
  /\ UNCHANGED <<now, recover, story_narrations, printed>>

\* the SELECT and fetchall(): the section ids of the rows found
ResetSelect ==
  /\ reset.pc = "idle"
  /\ IF findStuck = {}
       THEN /\ result' = "noop"
            /\ UNCHANGED reset
       ELSE /\ reset' = [pc |-> "found",
                         rows |-> {story_audio[i].section_id : i \in findStuck},
                         found |-> findStuck]
            /\ result' = "ok"
  /\ UNCHANGED <<now, story_audio, recover, story_narrations, printed>>

\* UPDATE story_audio SET ... WHERE section_id = ?
ResetMatches(r) == r.section_id \in reset.rows

\* (variant: the timestamp is taken in seconds, int(time.time()), not milliseconds)
Failed_Seconds(r, t) ==
  [r EXCEPT !.status = ResetStatus, !.error = ResetError, !.updated_at = t \div 1000]

\* (variant: the SET list has the status and the time, and no error text)
Failed_NoError(r, t) ==
  [r EXCEPT !.status = ResetStatus, !.updated_at = t]

\* SET status = 'ERROR', error = 'Processing timed out (reset by admin)', updated_at = ?
Failed(r, t) ==
  [r EXCEPT !.status = ResetStatus, !.error = ResetError, !.updated_at = t]

\* (variant: the reset deletes the stuck entries instead of failing them)
ResetUpdate_Deletes ==
  /\ reset.pc = "found"
  /\ story_audio' = SelectSeq(story_audio, LAMBDA r : ~ResetMatches(r))
  /\ reset' = [pc |-> "idle", rows |-> {}, found |-> {}]
  /\ result' = "ok"
  /\ UNCHANGED <<now, recover, story_narrations, printed>>

\* (variant: the script ends without conn.commit())
ResetUpdate_NoCommit ==
  /\ reset.pc = "found"
  /\ reset' = [pc |-> "idle", rows |-> {}, found |-> {}]
  /\ result' = "ok"
  /\ UNCHANGED <<now, story_audio, recover, story_narrations, printed>>

\* the loop of UPDATEs over the rows found, and the one commit after it
ResetUpdate ==
  /\ reset.pc = "found"
  /\ story_audio' = [i \in Rows |-> IF ResetMatches(story_audio[i])
                                      THEN Failed(story_audio[i], now)
                                      ELSE story_audio[i]]
  /\ reset' = [pc |-> "idle", rows |-> {}, found |-> {}]
  /\ result' = "ok"
  /\ UNCHANGED <<now, recover, story_narrations, printed>>

\* (variant: the connection is in autocommit mode, so the UPDATEs made before
\* the error stay)
ResetFail_Autocommit ==
  /\ reset.pc = "found"
  /\ story_audio' = [i \in Rows |-> IF ResetMatches(story_audio[i])
                                      THEN Failed(story_audio[i], now)
                                      ELSE story_audio[i]]
  /\ reset' = [pc |-> "idle", rows |-> {}, found |-> {}]
  /\ result' = "Error"
  /\ UNCHANGED <<now, recover, story_narrations, printed>>

\* an execute() of the loop, or the commit, raises (the database is locked):
\* the script prints "Error:" and ends; the open transaction is never committed
ResetFail ==
  /\ reset.pc = "found"
  /\ reset' = [pc |-> "idle", rows |-> {}, found |-> {}]
  /\ result' = "Error"
  /\ UNCHANGED <<now, story_audio, recover, story_narrations, printed>>

\* ------------------------------------------------------------------ Next
Create == \E k \in Keys : create(k[1], k[2])

Update == \E k \in Keys, e \in Requests : update(k[1], k[2], e[1], e[2])

Next ==
  \/ Tick
  \/ Create
  \/ Update
  \/ RecoverSelect
  \/ RecoverUpdate
  \/ ResetSelect
  \/ ResetUpdate
  \/ ResetFail

Spec == Init /\ [][Next]_vars

\* the reset script keeps being run while there is something for it to do, and
\* its run does not fail for ever; nothing is assumed of the worker
FairSpec ==
  /\ Spec
  /\ WF_vars(Tick)
  /\ WF_vars(ResetSelect)
  /\ SF_vars(ResetUpdate)

\* ------------------------------------------------- the check_story_* scripts
\* a column a script does not print
NotPrinted == "(not printed)"

\* the orders a result set of the rows S can come in
Orders(S) ==
  {f \in [1..Cardinality(S) -> S] : \A m, n \in DOMAIN f : f[m] = f[n] => m = n}

\* check_story_audio.py: the rows of story_audio joined to the sections of the story
AudioRowsOf(story) == {i \in Rows : StoryOf[story_audio[i].section_id] = story}

\* check_story_audio.py: "Section {row[0]}: Status={row[2]}, Updated={row[5]}"
AudioLine(r) ==
  [label |-> r.section_id, status |-> r.status, updated_at |-> r.updated_at,
   error |-> NotPrinted]

\* check_story_audio.py: SELECT without ORDER BY, fetchall, one line per row
check_story_audio ==
  /\ \E f \in Orders(AudioRowsOf(CheckStory)) :
        printed' = [n \in DOMAIN f |-> AudioLine(story_audio[f[n]])]
  /\ result' = IF AudioRowsOf(CheckStory) = {} THEN "noop" ELSE "ok"
  /\ UNCHANGED <<now, story_audio, recover, reset, story_narrations>>

\* the rows of story_narrations of the story
NarrationRowsOf(story) ==
  {i \in DOMAIN story_narrations : story_narrations[i].story_id = story}

\* ORDER BY chunk_index ASC (section_index in the first script)
Ascending(f) ==
  \A m, n \in DOMAIN f :
    m < n => story_narrations[f[m]].chunk_index <= story_narrations[f[n]].chunk_index

\* check_story_narrations.py: "Section {row[1]}: Status={row[2]}, Updated={row[6]}, Error={row[4]}"
NarrationLine(r) ==
  [label |-> r.chunk_index, status |-> r.status, updated_at |-> r.updated_at,
   error |-> r.error]

\* check_story_narrations_v2.py: "Chunk {row[1]}: Status={row[2]}, Updated={row[5]}"
ChunkLine(r) ==
  [label |-> r.chunk_index, status |-> r.status, updated_at |-> r.updated_at,
   error |-> NotPrinted]

\* check_story_narrations.py: SELECT ... ORDER BY section_index ASC, one line per row
check_story_narrations ==
  /\ \E f \in Orders(NarrationRowsOf(CheckStory)) :
        /\ Ascending(f)
        /\ printed' = [n \in DOMAIN f |-> NarrationLine(story_narrations[f[n]])]
  /\ result' = IF NarrationRowsOf(CheckStory) = {} THEN "noop" ELSE "ok"
  /\ UNCHANGED <<now, story_audio, recover, reset, story_narrations>>

\* check_story_narrations_v2.py: SELECT ... ORDER BY chunk_index ASC, one line per row
check_story_narrations_v2 ==
  /\ \E f \in Orders(NarrationRowsOf(CheckStory)) :
        /\ Ascending(f)
        /\ printed' = [n \in DOMAIN f |-> ChunkLine(story_narrations[f[n]])]
  /\ result' = IF NarrationRowsOf(CheckStory) = {} THEN "noop" ELSE "ok"
  /\ UNCHANGED <<now, story_audio, recover, reset, story_narrations>>

\* the (section, voice) pairs of the tables the scripts are run on
CheckedKeys == {<<"c1", "v1">>, <<"c1", "v2">>, <<"c2", "v1">>, <<"c3", "v1">>,
                <<"s2", "v1">>}

\* a row of story_audio in the given status, as create and update leave it
StoredJob(k, st) ==
  LET p == NewJob(k[1], k[2], 0)
      q == Committed(p, "PROCESSING", 0)
  IN IF st = "PENDING" THEN p
     ELSE IF st = "PROCESSING" THEN q
     ELSE Committed(q, st, MaxTime)

\* the story_audio tables the scripts are run on: at most one job of a key
\* that is not terminal, and it is the latest
AudioTables ==
  {t \in UNION {[1..n -> {StoredJob(k, st) : k \in CheckedKeys, st \in Status}] :
                  n \in 0..MaxListed} :
     \A i, j \in DOMAIN t :
       (i < j /\ Key(t[i]) = Key(t[j])) => t[i].status \in Terminal}

\* the (story, chunk) pairs of the tables the scripts are run on
CheckedChunks == {<<"C", 0>>, <<"C", 1>>, <<"C", 2>>, <<"B", 0>>}

\* a row of story_narrations in the given status
StoredNarration(c, st, t) ==
  [story_id |-> c[1], chunk_index |-> c[2], status |-> st,
   audio_url |-> IF st = "COMPLETE" THEN WorkerUrl ELSE NULL,
   error |-> IF st = "ERROR" THEN WorkerError ELSE NULL,
   created_at |-> t, updated_at |-> MaxTime]

\* the story_narrations tables the scripts are run on: one row per chunk
NarrationTables ==
  {t \in UNION {[1..n -> {StoredNarration(c, st, ct) :
                            c \in CheckedChunks, st \in {"PROCESSING", "COMPLETE", "ERROR"},
                            ct \in 0..MaxTime}] :
                  n \in 0..MaxListed} :
     \A i, j \in DOMAIN t :
       (t[i].story_id = t[j].story_id /\ t[i].chunk_index = t[j].chunk_index) => i = j}

\* the scripts are run on a database as the application left it
QueryInit ==
  /\ now = MaxTime
  /\ recover = [pc |-> "idle", voice_id |-> NULL, row |-> 0]
  /\ reset = [pc |-> "idle", rows |-> {}, found |-> {}]
  /\ result = "ok"
  /\ printed = <<>>
  /\ \/ story_audio \in AudioTables /\ story_narrations = <<>>
     \/ story_audio = <<>> /\ story_narrations \in NarrationTables

QueryNext ==
  \/ check_story_audio
  \/ check_story_narrations
  \/ check_story_narrations_v2

QuerySpec == QueryInit /\ [][QueryNext]_vars

\* ================================================================ claims

\* the status changes a step makes to the rows it finds in the table
StatusChanges ==
  {<<story_audio[i].status, story_audio'[i].status>> :
     i \in {j \in Rows : story_audio'[j].status # story_audio[j].status}}

\* C1: every change of a job's status, whatever operation makes it, is one of
\* PENDING -> PROCESSING, PROCESSING -> COMPLETE, PROCESSING -> ERROR.
C1_StatusFollowsEdges == [][StatusChanges \subseteq LegalEdges]_vars

\* C2: for each (section, voice) key at most one row is PENDING or PROCESSING.
C2_AtMostOneActive ==
  \A i, j \in Rows :
    (/\ Key(story_audio[i]) = Key(story_audio[j])
     /\ story_audio[i].status \in NonTerminal
     /\ story_audio[j].status \in NonTerminal) => i = j

\* C2 witness: a key with a finished job and a second, active job after it.
C2_Witness ==
  \E i, j \in Rows :
    /\ i < j
    /\ Key(story_audio[i]) = Key(story_audio[j])
    /\ story_audio[i].status \in Terminal
    /\ story_audio[j].status = "PROCESSING"

\* C3: create for a key with a PENDING or PROCESSING job reports
\* DuplicateActiveJob and leaves the table as it was; create for a key whose
\* latest job is COMPLETE or ERROR succeeds, appends one fresh PENDING row and
\* leaves every earlier row, the prior job of the key included, as it was.
C3_CreateContract ==
  [][\A k \in Keys : create(k[1], k[2]) =>
       /\ (\E i \in Rows : Key(story_audio[i]) = k /\ story_audio[i].status \in NonTerminal)
            => result' = "DuplicateActiveJob" /\ story_audio' = story_audio
       /\ (HasRow(k) /\ story_audio[LatestRow(k)].status \in Terminal) =>
             /\ result' = "ok"
             /\ Len(story_audio') = Len(story_audio) + 1
             /\ \A i \in Rows : story_audio'[i] = story_audio[i]
             /\ LET r == story_audio'[Len(story_audio')]
                IN /\ Key(r) = k
                   /\ r.status = "PENDING"
                   /\ r.audio_url = NULL /\ r.error = NULL
                   /\ r.completed_at = NoTime]_vars

\* C3 witness: a key was requested again after its job failed or completed,
\* and a further request for it has just been refused.
C3_Witness ==
  /\ result = "DuplicateActiveJob"
  /\ \E i, j \in Rows :
       /\ i < j
       /\ Key(story_audio[i]) = Key(story_audio[j])
       /\ story_audio[i].status \in Terminal
       /\ story_audio[j].status = "PENDING"

\* C4: update commits only when the stored status is the expected one, and then
\* status and timestamps change together; with any other stored status it
\* reports StaleStatus and no field of any row changes.
C4_UpdateIsConditional ==
  [][\A k \in Keys, e \in Requests : update(k[1], k[2], e[1], e[2]) =>
       LET i == LatestRow(k)
           r == story_audio[i]
       IN /\ r.status # e[1] =>
                result' = "StaleStatus" /\ story_audio' = story_audio
          /\ result' # "ok" => story_audio' = story_audio
          /\ story_audio' # story_audio =>
                /\ r.status = e[1]
                /\ result' = "ok"
                /\ story_audio'[i].status = e[2]
                /\ story_audio'[i].updated_at = now
                /\ e[2] \in Terminal => story_audio'[i].completed_at = now
                /\ \A j \in Rows \ {i} : story_audio'[j] = story_audio[j]]_vars

\* C4 witness: the worker's late update of a job that recovery has already
\* forced to ERROR was refused as stale.
C4_Witness ==
  /\ result = "StaleStatus"
  /\ \E i \in Rows : /\ story_audio[i].status = "ERROR"
                      /\ story_audio[i].error = ResetError

\* C5: the status check and the write are one step: when the write of a
\* recovery script commits, the row whose status the script checked still has
\* the expected status PROCESSING, and when a worker's update commits, the row
\* has the status the worker expected.
C5_CheckAndWriteAtomic ==
  [][/\ RecoverUpdate => story_audio[recover.row].status = "PROCESSING"
     /\ ResetUpdate => \A i \in reset.found : story_audio[i].status = "PROCESSING"
     /\ \A k \in Keys, e \in Requests :
          (update(k[1], k[2], e[1], e[2]) /\ result' = "ok")
            => story_audio[LatestRow(k)].status = e[1]]_vars

\* C6: a remedy whose job left PROCESSING between the scan that found it and the
\* write leaves the row exactly as the worker wrote it.
C6_RecoveryKeepsWorkerResult ==
  [][/\ RecoverUpdate =>
          (story_audio[recover.row].status # "PROCESSING"
             => story_audio'[recover.row] = story_audio[recover.row])
     /\ ResetUpdate =>
          \A i \in reset.found :
            story_audio[i].status # "PROCESSING" => story_audio'[i] = story_audio[i]]_vars

\* C7: force-fail of a job that is in PROCESSING leaves status = ERROR, the
\* administrative message in error, and completed_at = the time of the recovery.
C7_ForceFailResult ==
  [][ResetUpdate =>
       \A i \in reset.found :
         story_audio[i].status = "PROCESSING" =>
           /\ story_audio'[i].status = "ERROR"
           /\ story_audio'[i].error = ResetError
           /\ story_audio'[i].completed_at = now]_vars

\* C8: force-complete of a job that is in PROCESSING leaves status = COMPLETE,
\* audio_url = the artifact url, error = null and completed_at = the time of
\* the recovery.
C8_ForceCompleteResult ==
  [][RecoverUpdate =>
       (story_audio[recover.row].status = "PROCESSING" =>
          /\ story_audio'[recover.row].status = "COMPLETE"
          /\ story_audio'[recover.row].audio_url = RecoverUrl
          /\ story_audio'[recover.row].error = NULL
          /\ story_audio'[recover.row].completed_at = now)]_vars

\* C8 witness: a job that entered PROCESSING at an earlier time stands
\* force-completed.
C8_Witness ==
  \E i \in Rows :
    /\ story_audio[i].status = "COMPLETE"
    /\ story_audio[i].audio_url = RecoverUrl
    /\ story_audio[i].error = NULL
    /\ story_audio[i].completed_at = now
    /\ story_audio[i].created_at < now
    /\ recover.pc = "idle"

\* C9: a remedy run again leaves a job that is already in that remedy's target
\* state (COMPLETE with the artifact url after force-complete, ERROR with the
\* administrative message after force-fail) unchanged in every field.  The job
\* is the current one of its key: the key has not been requested again.
C9_RecoveryIdempotent ==
  [][\A i \in Rows :
       /\ (/\ RecoverSelect \/ RecoverUpdate
           /\ story_audio[i].section_id = RecoverSection
           /\ i = LatestRow(Key(story_audio[i]))
           /\ story_audio[i].status = "COMPLETE"
           /\ story_audio[i].audio_url = RecoverUrl)
            => story_audio'[i] = story_audio[i]
       /\ (/\ ResetSelect \/ ResetUpdate
           /\ StoryOf[story_audio[i].section_id] = ResetStory
           /\ i = LatestRow(Key(story_audio[i]))
           /\ story_audio[i].status = "ERROR"
           /\ story_audio[i].error = ResetError)
            => story_audio'[i] = story_audio[i]]_vars

\* the jobs of the story that are stuck: PROCESSING, and not updated for more
\* than the timeout
StuckJobs ==
  {i \in Rows : /\ StoryOf[story_audio[i].section_id] = ResetStory
                /\ story_audio[i].status = "PROCESSING"
                /\ now - story_audio[i].updated_at > Timeout}

\* C10: the scan returns exactly the jobs with status = PROCESSING and
\* now - updated_at > timeout.
C10_FindStuckIsExact ==
  [][ResetSelect =>
       /\ reset'.found = StuckJobs
       /\ reset'.rows = {story_audio[i].section_id : i \in StuckJobs}]_vars

\* C11: the scan is a pure read: it changes no row of the table, and a scan made
\* again at once, on the same clock, returns the rows the first one returned.
C11_FindStuckIsPureRead ==
  [][ResetSelect =>
       /\ story_audio' = story_audio
       /\ now' = now
       /\ findStuck' = findStuck
       /\ reset'.found = findStuck']_vars

\* C11 witness: the scan has just returned a job, which is as it was.
C11_Witness ==
  /\ reset.pc = "found"
  /\ reset.found # {}
  /\ \A i \in reset.found : /\ story_audio[i].status = "PROCESSING"
                             /\ story_audio[i].updated_at < now

\* C12: in every row audio_url is set only if status = COMPLETE and error is
\* set only if status = ERROR.
C12_FieldsMatchStatus ==
  \A i \in Rows :
    /\ story_audio[i].audio_url # NULL => story_audio[i].status = "COMPLETE"
    /\ story_audio[i].error # NULL => story_audio[i].status = "ERROR"

\* C13: created_at, updated_at and completed_at of a row never decrease, and
\* completed_at is null while the row is PENDING or PROCESSING.
C13_TimestampsMonotonic ==
  [][/\ \A i \in Rows :
          /\ story_audio'[i].created_at >= story_audio[i].created_at
          /\ story_audio'[i].updated_at >= story_audio[i].updated_at
          /\ story_audio'[i].completed_at >= story_audio[i].completed_at
     /\ \A i \in DOMAIN story_audio' :
          /\ story_audio'[i].status \in NonTerminal
                => story_audio'[i].completed_at = NoTime
          /\ story_audio'[i].created_at <= story_audio'[i].updated_at
          /\ story_audio'[i].updated_at <= now']_vars

\* C13 witness: a job created at an earlier time has been force-completed now,
\* next to a job that is still in PROCESSING.
C13_Witness ==
  \E i, j \in Rows :
    /\ story_audio[i].created_at < story_audio[i].updated_at
    /\ story_audio[i].completed_at = story_audio[i].updated_at
    /\ story_audio[i].audio_url = RecoverUrl
    /\ story_audio[j].status = "PROCESSING"
    /\ story_audio[j].completed_at = NoTime

\* C14: every row in a terminal status has a completed_at, and the write that
\* made it terminal set updated_at (and completed_at) to the time of the write.
C14_TerminalHasCompletedAt ==
  \A i \in Rows :
    story_audio[i].status \in Terminal => story_audio[i].completed_at # NoTime

C19_RowsNeverDeleted ==
  [][/\ Len(story_audio') >= Len(story_audio)
     /\ \A i \in Rows :
          /\ Key(story_audio'[i]) = Key(story_audio[i])
          /\ story_audio'[i].created_at = story_audio[i].created_at
     /\ Len(story_audio') > Len(story_audio)
          => \A i \in Rows : story_audio'[i] = story_audio[i]]_vars

\* C19 witness: a key was requested again at a later time, and its earlier,
\* force-failed job is still in the table.
C19_Witness ==
  \E i, j \in Rows :
    /\ i < j
    /\ Key(story_audio[i]) = Key(story_audio[j])
    /\ story_audio[i].status = "ERROR"
    /\ story_audio[i].error = ResetError
    /\ story_audio[j].created_at > story_audio[i].created_at

\* C20: the recovery command reports success exactly when its write moved the
\* job it found from PROCESSING to COMPLETE, and a no-op exactly when no job of
\* the section is in PROCESSING and nothing is written.
C20_OutcomeMatchesWrite ==
  [][/\ RecoverUpdate =>
          (result' = "ok" <=> /\ story_audio[recover.row].status = "PROCESSING"
                              /\ story_audio'[recover.row].status = "COMPLETE")
     /\ RecoverSelect =>
          /\ result' = "noop" <=> RecoverFound = {}
          /\ story_audio' = story_audio]_vars

\* the latest job of a section, whatever its voice
LatestOfSection(sec) ==
  CHOOSE i \in Rows :
    /\ story_audio[i].section_id = sec
    /\ \A j \in Rows : story_audio[j].section_id = sec => j <= i

\* C16: the status listing of a story has exactly one entry for each of its
\* sections that has a job, whatever the number of voices and of superseded
\* jobs, and the entry carries the status of the section's latest job.
C16_OneEntryPerSection ==
  [][check_story_audio =>
       \A i \in AudioRowsOf(CheckStory) :
         LET sec == story_audio[i].section_id
             lines == {n \in DOMAIN printed' : printed'[n].label = sec}
         IN /\ Cardinality(lines) = 1
            /\ \A n \in lines :
                 printed'[n].status = story_audio[LatestOfSection(sec)].status]_vars

\* C17: the listings of a story come in ascending order of the section index
\* (story_audio) and of the chunk index (story_narrations), whatever the
\* order the rows were created in.
C17_ListedInIndexOrder ==
  [][/\ check_story_audio =>
          \A m, n \in DOMAIN printed' :
            m < n => SectionIndex[printed'[m].label] <= SectionIndex[printed'[n].label]
     /\ (check_story_narrations \/ check_story_narrations_v2) =>
          \A m, n \in DOMAIN printed' :
            m < n => printed'[m].label <= printed'[n].label]_vars

\* C18: a status listing changes no row, and every row of the story is listed
\* with the status and updated_at it has in the table; a row in ERROR is listed
\* as ERROR with its error text.
C18_ListingShowsStoredState ==
  [][/\ check_story_audio =>
          /\ story_audio' = story_audio
          /\ \A i \in AudioRowsOf(CheckStory) :
               \E n \in DOMAIN printed' :
                 /\ printed'[n].label = story_audio[i].section_id
                 /\ printed'[n].status = story_audio[i].status
                 /\ printed'[n].updated_at = story_audio[i].updated_at
                 /\ story_audio[i].status = "ERROR"
                      => printed'[n].error = story_audio[i].error
     /\ check_story_narrations =>
          /\ story_narrations' = story_narrations
          /\ \A i \in NarrationRowsOf(CheckStory) :
               \E n \in DOMAIN printed' :
                 /\ printed'[n].label = story_narrations[i].chunk_index
                 /\ printed'[n].status = story_narrations[i].status
                 /\ printed'[n].updated_at = story_narrations[i].updated_at
                 /\ story_narrations[i].status = "ERROR"
                      => printed'[n].error = story_narrations[i].error]_vars

\* the rows a step changes
ChangedRows == {i \in Rows : story_audio'[i] # story_audio[i]}

\* C21: a recovery write changes a job only if the job is stuck at the moment
\* of the write: in PROCESSING, and not updated for more than the timeout.
C21_RecoversOnlyStuckJobs ==
  [][(RecoverUpdate \/ ResetUpdate) =>
       \A i \in ChangedRows :
         /\ story_audio[i].status = "PROCESSING"
         /\ now - story_audio[i].updated_at > Timeout]_vars

\* C22: of the writes that race on one PROCESSING job exactly one commits: a
\* row that is in a terminal status is never written again, and a recovery
\* write that finds its job out of PROCESSING does not report success.
C22_SingleWinner ==
  [][/\ \A i \in Rows :
          story_audio[i].status \in Terminal => story_audio'[i] = story_audio[i]
     /\ (RecoverUpdate /\ story_audio[recover.row].status # "PROCESSING")
          => result' # "ok"
     /\ (ResetUpdate /\ \A i \in reset.found : story_audio[i].status # "PROCESSING")
          => result' # "ok"]_vars

C24_ResetChangesOnlyFoundRows ==
  [][ResetUpdate =>
       \A i \in ChangedRows :
         /\ i \in reset.found
         /\ StoryOf[story_audio[i].section_id] = ResetStory]_vars

\* C25: every row in ERROR has an error text, whether the worker or the reset
\* put it there.
C25_ErrorHasText ==
  \A i \in Rows :
    story_audio[i].status = "ERROR" => story_audio[i].error \notin {NULL, ""}

\* C25 witness: one job failed by its worker and one force-failed by the reset.
C25_Witness ==
  \E i, j \in Rows :
    /\ story_audio[i].status = "ERROR"
    /\ story_audio[i].error = WorkerError
    /\ story_audio[j].status = "ERROR"
    /\ story_audio[j].error = ResetError

\* C26: a run of the reset on the entries it found ends in one of two ways:
\* all of them are ERROR, written at one time, and the run reports success; or
\* an error was raised and no row of the table has changed.
C26_BatchIsAllOrNothing ==
  [][/\ ResetUpdate =>
          /\ result' = "ok"
          /\ \A i \in reset.found :
               /\ story_audio'[i].status = "ERROR"
               /\ story_audio'[i].updated_at = now
     /\ ResetFail =>
          /\ story_audio' = story_audio
          /\ result' = "Error"
     /\ (reset.pc = "found" /\ reset'.pc = "idle") =>
          \/ story_audio' = story_audio
          \/ \A i \in reset.found : story_audio'[i].status = "ERROR"]_vars

\* C26 witness: a run that failed has just ended, and the two entries it had
\* found are still in PROCESSING.
C26_Witness ==
  /\ result = "Error"
  /\ reset.pc = "idle"
  /\ \E i, j \in Rows :
       /\ i # j
       /\ story_audio[i].section_id = story_audio[j].section_id
       /\ StoryOf[story_audio[i].section_id] = ResetStory
       /\ story_audio[i].status = "PROCESSING"
       /\ story_audio[j].status = "PROCESSING"

====
